---- MODULE Spec2Model ----
(***************************************************************************)
(* Model of src/news.py: NewsFetcher.fetch_news, draw_wrapped_text and     *)
(* create_pdf.                                                             *)
(*                                                                         *)
(* A Python str is a sequence of one-character strings.  Widths are kept   *)
(* in thousandths of a point, so that stringWidth (AFM glyph width in      *)
(* 1/1000 em, times the font size) stays an integer.                       *)
(***************************************************************************)
EXTENDS Integers, Sequences, FiniteSets, TLC

VARIABLES
    \* NewsFetcher.fetch_news
    rss_feeds,      \* self.rss_feeds: what each feed URL answers with
    f_pc,           \* position in fetch_news
    f_feed,         \* index of the feed of the outer for loop
    f_entry,        \* index of the entry of the inner for loop
    news_articles,  \* the list being returned
    \* draw_wrapped_text (wrapping part, lines 65-76)
    w_text,         \* parameter text
    w_max,          \* parameter max_width
    w_pc,           \* position in draw_wrapped_text
    words,          \* local words
    w_k,            \* index of the word of the for loop
    line,           \* local line
    lines,          \* local lines
    \* create_pdf
    news,           \* parameter news
    pc,             \* position in create_pdf
    art,            \* index of the article of the for loop
    y,              \* local y, the cursor
    page,           \* number of the page being drawn (1 + calls of showPage)
    font,           \* the canvas' current font, <<name, size>>
    out             \* the canvas calls made so far, in order

fetchVars == <<rss_feeds, f_pc, f_feed, f_entry, news_articles>>
wrapVars == <<w_text, w_max, w_pc, words, w_k, line, lines>>
pdfVars == <<news, pc, art, y, page, font, out>>
vars == <<fetchVars, wrapVars, pdfVars>>

----------------------------------------------------------------------------
(* Bounds *)

MaxLen == 6         \* longest text handed to the wrapper on its own
MaxWidth == 20      \* largest max_width (points) handed to the wrapper on its own
MaxRecords == 3     \* longest news list handed to create_pdf
MaxFeeds == 2       \* longest rss_feeds list
MaxEntries == 2     \* most entries of one feed

----------------------------------------------------------------------------
(* Strings *)

\* str.split() and str.strip() cut at whitespace
IsSpace(c) == c \in {" ", "\t", "\n"}

\* the k-th smallest element of a set of integers
Kth(S, k) == CHOOSE x \in S : Cardinality({z \in S : z < x}) = k - 1

\* text.split(): the maximal runs of non-whitespace, in order
Split(s) ==
    LET starts == {i \in 1..Len(s) : ~IsSpace(s[i]) /\ (i = 1 \/ IsSpace(s[i-1]))}
        ends == {i \in 1..Len(s) : ~IsSpace(s[i]) /\ (i = Len(s) \/ IsSpace(s[i+1]))}
    IN  [k \in 1..Cardinality(starts) |-> SubSeq(s, Kth(starts, k), Kth(ends, k))]

\* Strip, were .strip() left out
StripNothing(s) == s

\* line.strip(): leading and trailing whitespace removed
Strip(s) ==
    LET solid == {i \in 1..Len(s) : ~IsSpace(s[i])}
    IN  IF solid = {} THEN <<>>
        ELSE SubSeq(s, Kth(solid, 1), Kth(solid, Cardinality(solid)))

\* Glyph widths (1/1000 em) of the standard fonts the canvas measures with
CharWidth(c, fontName) ==
    IF fontName = "Helvetica-Bold"
    THEN CASE c \in {" ", "i", "l"} -> 278
           [] c \in {":", "t"} -> 333
           [] c = "r" -> 389
           [] c \in {"a", "c", "e", "s", "y", "x"} -> 556
           [] c \in {"b", "d", "h", "o", "u"} -> 611
           [] c = "T" -> 611
           [] c \in {"P", "S"} -> 667
           [] c \in {"A", "N", "R"} -> 722
           [] c = "m" -> 889
           [] c = "W" -> 944
           [] OTHER -> 556
    ELSE CASE c \in {"i", "l"} -> 222
           [] c \in {" ", ":", "t"} -> 278
           [] c = "r" -> 333
           [] c \in {"c", "s", "y", "x"} -> 500
           [] c \in {"a", "b", "d", "e", "h", "o", "u"} -> 556
           [] c = "T" -> 611
           [] c \in {"A", "P", "S"} -> 667
           [] c \in {"N", "R"} -> 722
           [] c = "m" -> 833
           [] c = "W" -> 944
           [] OTHER -> 556

\* the glyph widths of the characters of s that are in the set cs, added up
RECURSIVE SumWidths(_, _, _)
SumWidths(s, cs, fontName) ==
    IF cs = {} THEN 0
    ELSE LET c == CHOOSE x \in cs : TRUE
         IN  CharWidth(c, fontName) * Cardinality({i \in 1..Len(s) : s[i] = c})
             + SumWidths(s, cs \ {c}, fontName)

\* canvas_obj.stringWidth(s, fontName, fontSize), in 1/1000 point
StringWidth(s, fontName, fontSize) ==
    SumWidths(s, {s[i] : i \in 1..Len(s)}, fontName) * fontSize

\* a length in points, in 1/1000 point
Points(n) == n * 1000

----------------------------------------------------------------------------
(* draw_wrapped_text, lines 65-76: the wrapping *)

\* Fits, were line 70 to measure the line without the word it is about to take
FitsLineOnly(ln, word, max_width) ==
    StringWidth(ln, "Helvetica", 10) <= Points(max_width)

\* the test of line 70
Fits(ln, word, max_width) ==
    StringWidth(ln \o word \o <<" ">>, "Helvetica", 10) <= Points(max_width)

\* WrapWord, were line 74 to restart the line empty instead of with the word
WrapWordDropsWord(st, word, max_width) ==
    IF Fits(st.line, word, max_width)
    THEN [line |-> st.line \o word \o <<" ">>, lines |-> st.lines]
    ELSE [line |-> <<>>, lines |-> Append(st.lines, Strip(st.line))]

\* the body of the for loop, lines 70-74, on the pair (line, lines)
WrapWord(st, word, max_width) ==
    IF Fits(st.line, word, max_width)
    THEN [line |-> st.line \o word \o <<" ">>, lines |-> st.lines]
    ELSE [line |-> word \o <<" ">>, lines |-> Append(st.lines, Strip(st.line))]

\* lines 75-76
WrapFlush(st) ==
    IF st.line # <<>> THEN Append(st.lines, Strip(st.line)) ELSE st.lines

RECURSIVE WrapFrom(_, _, _, _)
WrapFrom(ws, k, st, max_width) ==
    IF k > Len(ws) THEN st
    ELSE WrapFrom(ws, k + 1, WrapWord(st, ws[k], max_width), max_width)

\* the list lines of draw_wrapped_text(text, ..., max_width, ...)
WrapLines(text, max_width) ==
    WrapFlush(WrapFrom(Split(text), 1, [line |-> <<>>, lines |-> <<>>], max_width))

----------------------------------------------------------------------------
(* The wrapper on its own: any text, any width budget *)

WrapAlphabet == {" ", "i", "W"}
WrapTexts == UNION {[1..n -> WrapAlphabet] : n \in 0..MaxLen}

WSplit ==
    /\ w_pc = "start"
    /\ words' = Split(w_text)
    /\ line' = <<>>
    /\ lines' = <<>>
    /\ w_k' = 1
    /\ w_pc' = "for"
    /\ UNCHANGED <<w_text, w_max>>
    /\ UNCHANGED <<fetchVars, pdfVars>>

WKeep ==
    /\ w_pc = "for"
    /\ w_k <= Len(words)
    /\ Fits(line, words[w_k], w_max)
    /\ LET st == WrapWord([line |-> line, lines |-> lines], words[w_k], w_max)
       IN  line' = st.line /\ lines' = st.lines
    /\ w_k' = w_k + 1
    /\ UNCHANGED <<w_text, w_max, w_pc, words>>
    /\ UNCHANGED <<fetchVars, pdfVars>>

WBreak ==
    /\ w_pc = "for"
    /\ w_k <= Len(words)
    /\ ~Fits(line, words[w_k], w_max)
    /\ LET st == WrapWord([line |-> line, lines |-> lines], words[w_k], w_max)
       IN  line' = st.line /\ lines' = st.lines
    /\ w_k' = w_k + 1
    /\ UNCHANGED <<w_text, w_max, w_pc, words>>
    /\ UNCHANGED <<fetchVars, pdfVars>>

WFlush ==
    /\ w_pc = "for"
    /\ w_k > Len(words)
    /\ line # <<>>
    /\ lines' = WrapFlush([line |-> line, lines |-> lines])
    /\ w_pc' = "wrapped"
    /\ UNCHANGED <<w_text, w_max, words, w_k, line>>
    /\ UNCHANGED <<fetchVars, pdfVars>>

WNoFlush ==
    /\ w_pc = "for"
    /\ w_k > Len(words)
    /\ line = <<>>
    /\ lines' = WrapFlush([line |-> line, lines |-> lines])
    /\ w_pc' = "wrapped"
    /\ UNCHANGED <<w_text, w_max, words, w_k, line>>
    /\ UNCHANGED <<fetchVars, pdfVars>>

WrapIdle ==
    /\ w_text = <<>> /\ w_max = 0 /\ w_pc = "idle"
    /\ words = <<>> /\ w_k = 0 /\ line = <<>> /\ lines = <<>>

FetchIdle ==
    /\ rss_feeds = <<>> /\ f_pc = "idle" /\ f_feed = 0 /\ f_entry = 0
    /\ news_articles = <<>>

PdfIdle ==
    /\ news = <<>> /\ pc = "idle" /\ art = 0 /\ y = 0 /\ page = 0
    /\ font = <<"", 0>> /\ out = <<>>

InitWrap ==
    /\ w_text \in WrapTexts
    /\ w_max \in 0..MaxWidth
    /\ w_pc = "start"
    /\ words = <<>> /\ w_k = 0 /\ line = <<>> /\ lines = <<>>
    /\ FetchIdle
    /\ PdfIdle

NextWrap == WSplit \/ WKeep \/ WBreak \/ WFlush \/ WNoFlush

SpecWrap == InitWrap /\ [][NextWrap]_vars


----------------------------------------------------------------------------
(* create_pdf *)

width == 612        \* letter[0]
height == 792       \* letter[1]
left_margin == 50
right_margin == 20
text_width == width - left_margin - right_margin

\* the constant parts of the texts create_pdf draws
HeadingText == <<"N","e","w","s"," ","A","r","t","i","c","l","e","s">>
TitlePrefix == <<"T","i","t","l","e",":"," ">>
SourcePrefix == <<"S","o","u","r","c","e",":"," ">>
PublishedPrefix == <<"P","u","b","l","i","s","h","e","d",":"," ">>
SummaryPrefix == <<"S","u","m","m","a","r","y",":"," ">>
link_text == <<"R","e","a","d"," ","m","o","r","e">>

\* one canvas call, as recorded in out; art and block say which article and
\* which statement of create_pdf made it
DrawString(f, x, yy, text, a, block) ==
    [op |-> "drawString", font |-> f, x |-> x, y |-> yy, text |-> text,
     url |-> "", rect |-> <<>>, page |-> page, art |-> a, block |-> block]

LinkURL(url, rect, a) ==
    [op |-> "linkURL", font |-> font, x |-> rect[1], y |-> rect[2], text |-> <<>>,
     url |-> url, rect |-> rect, page |-> page, art |-> a, block |-> "link"]

ShowPage(a) ==
    [op |-> "showPage", font |-> font, x |-> 0, y |-> 0, text |-> <<>>,
     url |-> "", rect |-> <<>>, page |-> page, art |-> a, block |-> "break"]

\* DrawWrappedText, were the y returned one line short
DrawWrappedTextShort(f, text, x, yy, max_width, line_height, a, block) ==
    LET ls == WrapLines(text, max_width)
    IN  [calls |-> [i \in 1..Len(ls) |->
                      DrawString(f, x, yy - (i - 1) * line_height, ls[i], a, block)],
         y |-> yy - (Len(ls) - 1) * line_height]

\* draw_wrapped_text(canvas_obj, text, x, y, max_width, line_height), the canvas
\* being in font f: the drawString calls of lines 78-80 and the y returned
DrawWrappedText(f, text, x, yy, max_width, line_height, a, block) ==
    LET ls == WrapLines(text, max_width)
    IN  [calls |-> [i \in 1..Len(ls) |->
                      DrawString(f, x, yy - (i - 1) * line_height, ls[i], a, block)],
         y |-> yy - Len(ls) * line_height]

\* n words of len letters W each, one space between them
WordsText(n, len) ==
    [i \in 1..(n * (len + 1) - 1) |-> IF i % (len + 1) = 0 THEN " " ELSE "W"]

\* The articles create_pdf is run on
RecA ==
    [title |-> <<"A">>, link |-> "http://x", summary |-> <<>>,
     published |-> <<>>, source |-> <<"S">>]
RecB ==
    [title |-> WordsText(5, 10), link |-> "example.com",
     summary |-> WordsText(2, 57), published |-> <<"P">>, source |-> <<"S">>]
RecC ==
    [title |-> WordsText(6, 10), link |-> "http://x/c",
     summary |-> WordsText(6, 57), published |-> WordsText(6, 57),
     source |-> WordsText(6, 57)]
Records == {RecA, RecB, RecC}
NewsLists == UNION {[1..n -> Records] : n \in 0..MaxRecords}

\* lines 101-103
DrawHeading ==
    /\ pc = "start"
    /\ font' = <<"Helvetica-Bold", 16>>
    /\ out' = Append(out, DrawString(font', left_margin, y, HeadingText, 0, "heading"))
    /\ y' = y - 30
    /\ pc' = "for"
    /\ UNCHANGED <<news, art, page>>
    /\ UNCHANGED <<fetchVars, wrapVars>>

\* NearBottom, were line 106 to compare with the bare 50
NearBottomAt50(yy) == yy < 50

\* the test of line 106
NearBottom(yy) == yy < left_margin + 50

\* ForBreak, were line 109 missing: the cursor is left where it was
ForBreakKeepsY ==
    /\ pc = "for"
    /\ art < Len(news)
    /\ NearBottom(y)
    /\ art' = art + 1
    /\ out' = Append(out, ShowPage(art'))
    /\ page' = page + 1
    /\ font' = <<"Helvetica", 12>>
    /\ pc' = "title"
    /\ UNCHANGED <<news, y>>
    /\ UNCHANGED <<fetchVars, wrapVars>>

\* lines 105-109, the test of line 106 true
ForBreak ==
    /\ pc = "for"
    /\ art < Len(news)
    /\ NearBottom(y)
    /\ art' = art + 1
    /\ out' = Append(out, ShowPage(art'))
    /\ page' = page + 1
    /\ font' = <<"Helvetica", 12>>
    /\ y' = height - left_margin
    /\ pc' = "title"
    /\ UNCHANGED news
    /\ UNCHANGED <<fetchVars, wrapVars>>

\* lines 105-106, the test of line 106 false
ForNoBreak ==
    /\ pc = "for"
    /\ art < Len(news)
    /\ ~NearBottom(y)
    /\ art' = art + 1
    /\ pc' = "title"
    /\ UNCHANGED <<news, y, page, font, out>>
    /\ UNCHANGED <<fetchVars, wrapVars>>

\* lines 112-113
DrawTitle ==
    /\ pc = "title"
    /\ font' = <<"Helvetica-Bold", 12>>
    /\ LET d == DrawWrappedText(font', TitlePrefix \o news[art].title,
                                left_margin, y, text_width, 14, art, "title")
       IN  out' = out \o d.calls /\ y' = d.y
    /\ pc' = "source"
    /\ UNCHANGED <<news, art, page>>
    /\ UNCHANGED <<fetchVars, wrapVars>>

\* lines 115-116
DrawSource ==
    /\ pc = "source"
    /\ font' = <<"Helvetica", 10>>
    /\ LET d == DrawWrappedText(font', SourcePrefix \o news[art].source,
                                left_margin, y, text_width, 12, art, "source")
       IN  out' = out \o d.calls /\ y' = d.y
    /\ pc' = "published"
    /\ UNCHANGED <<news, art, page>>
    /\ UNCHANGED <<fetchVars, wrapVars>>

\* line 117
DrawPublished ==
    /\ pc = "published"
    /\ LET d == DrawWrappedText(font, PublishedPrefix \o news[art].published,
                                left_margin, y, text_width, 12, art, "published")
       IN  out' = out \o d.calls /\ y' = d.y
    /\ pc' = "link"
    /\ UNCHANGED <<news, art, page, font>>
    /\ UNCHANGED <<fetchVars, wrapVars>>

\* DrawLink, were line 123 to put a scheme in front of a link that has none
DrawLinkAddsScheme ==
    /\ pc = "link"
    /\ font' = <<"Helvetica", 10>>
    /\ out' = out \o
              << DrawString(font', left_margin, y, link_text, art, "readmore"),
                 LinkURL(IF news[art].link = "example.com"
                         THEN "http://example.com" ELSE news[art].link,
                         <<left_margin, y - 2, left_margin + 50, y + 10>>, art) >>
    /\ y' = y - 15
    /\ pc' = "summary"
    /\ UNCHANGED <<news, art, page>>
    /\ UNCHANGED <<fetchVars, wrapVars>>

\* lines 120-124
DrawLink ==
    /\ pc = "link"
    /\ font' = <<"Helvetica", 10>>
    /\ out' = out \o
              << DrawString(font', left_margin, y, link_text, art, "readmore"),
                 LinkURL(news[art].link,
                         <<left_margin, y - 2, left_margin + 50, y + 10>>, art) >>
    /\ y' = y - 15
    /\ pc' = "summary"
    /\ UNCHANGED <<news, art, page>>
    /\ UNCHANGED <<fetchVars, wrapVars>>

\* line 127
DrawSummary ==
    /\ pc = "summary"
    /\ LET d == DrawWrappedText(font, SummaryPrefix \o news[art].summary,
                                left_margin, y, text_width, 12, art, "summary")
       IN  out' = out \o d.calls /\ y' = d.y
    /\ pc' = "gap"
    /\ UNCHANGED <<news, art, page, font>>
    /\ UNCHANGED <<fetchVars, wrapVars>>

\* line 129
Gap ==
    /\ pc = "gap"
    /\ y' = y - 20
    /\ pc' = "for"
    /\ UNCHANGED <<news, art, page, font, out>>
    /\ UNCHANGED <<fetchVars, wrapVars>>

\* lines 131-133
Save ==
    /\ pc = "for"
    /\ art = Len(news)
    /\ pc' = "done"
    /\ UNCHANGED <<news, art, y, page, font, out>>
    /\ UNCHANGED <<fetchVars, wrapVars>>

\* create_pdf after lines 93-98: the canvas is new, y is at the top of page 1
Init ==
    /\ news \in NewsLists
    /\ pc = "start"
    /\ art = 0
    /\ y = height - left_margin
    /\ page = 1
    /\ font = <<"Helvetica", 12>>
    /\ out = <<>>
    /\ FetchIdle
    /\ WrapIdle

Next ==
    \/ DrawHeading
    \/ ForBreak
    \/ ForNoBreak
    \/ DrawTitle
    \/ DrawSource
    \/ DrawPublished
    \/ DrawLink
    \/ DrawSummary
    \/ Gap
    \/ Save

Spec == Init /\ [][Next]_vars

----------------------------------------------------------------------------
(* NewsFetcher.fetch_news *)

\* What feedparser hands back for one entry: with every field, with title and
\* link only, or without a title (reading entry.title then raises)
EntryKinds == {"full", "bare", "untitled"}

\* What feedparser.parse does for one feed URL: it raises, or it hands back
\* entries and a feed that has a title or has none
Feeds ==
    {[raises |-> TRUE, has_title |-> FALSE, entries |-> <<>>]}
    \cup [raises : {FALSE}, has_title : BOOLEAN,
          entries : UNION {[1..n -> EntryKinds] : n \in 0..MaxEntries}]

UnknownSource == <<"U","n","k","n","o","w","n"," ","S","o","u","r","c","e">>

\* the dictionary of lines 38-44 for entry e of feed f
Article(f, e) ==
    LET kind == rss_feeds[f].entries[e]
    IN  [title |-> <<"t", ToString(f), ToString(e)>>,
         link |-> <<"l", ToString(f), ToString(e)>>,
         summary |-> IF kind = "full" THEN <<"s", ToString(f), ToString(e)>> ELSE <<>>,
         published |-> IF kind = "full" THEN <<"p", ToString(f), ToString(e)>> ELSE <<>>,
         source |-> IF rss_feeds[f].has_title THEN <<"F", ToString(f)>>
                    ELSE UnknownSource]

\* line 36 returns
Parse ==
    /\ f_pc = "for"
    /\ f_feed < Len(rss_feeds)
    /\ ~rss_feeds[f_feed + 1].raises
    /\ f_feed' = f_feed + 1
    /\ f_entry' = 0
    /\ f_pc' = "entries"
    /\ UNCHANGED <<rss_feeds, news_articles>>
    /\ UNCHANGED <<wrapVars, pdfVars>>

\* line 36 raises; lines 46-47 catch it and the loop goes on
ParseRaises ==
    /\ f_pc = "for"
    /\ f_feed < Len(rss_feeds)
    /\ rss_feeds[f_feed + 1].raises
    /\ f_feed' = f_feed + 1
    /\ UNCHANGED <<rss_feeds, f_pc, f_entry, news_articles>>
    /\ UNCHANGED <<wrapVars, pdfVars>>

\* lines 37-45 for one entry
ReadEntry ==
    /\ f_pc = "entries"
    /\ f_entry < Len(rss_feeds[f_feed].entries)
    /\ rss_feeds[f_feed].entries[f_entry + 1] # "untitled"
    /\ f_entry' = f_entry + 1
    /\ news_articles' = Append(news_articles, Article(f_feed, f_entry + 1))
    /\ UNCHANGED <<rss_feeds, f_pc, f_feed>>
    /\ UNCHANGED <<wrapVars, pdfVars>>

\* line 39 raises; lines 46-47 catch it and the loop goes on with the next feed
EntryRaises ==
    /\ f_pc = "entries"
    /\ f_entry < Len(rss_feeds[f_feed].entries)
    /\ rss_feeds[f_feed].entries[f_entry + 1] = "untitled"
    /\ f_pc' = "for"
    /\ UNCHANGED <<rss_feeds, f_feed, f_entry, news_articles>>
    /\ UNCHANGED <<wrapVars, pdfVars>>

\* the for loop of line 37 ends
EndOfFeed ==
    /\ f_pc = "entries"
    /\ f_entry = Len(rss_feeds[f_feed].entries)
    /\ f_pc' = "for"
    /\ UNCHANGED <<rss_feeds, f_feed, f_entry, news_articles>>
    /\ UNCHANGED <<wrapVars, pdfVars>>

\* line 48
Return ==
    /\ f_pc = "for"
    /\ f_feed = Len(rss_feeds)
    /\ f_pc' = "done"
    /\ UNCHANGED <<rss_feeds, f_feed, f_entry, news_articles>>
    /\ UNCHANGED <<wrapVars, pdfVars>>

InitFetch ==
    /\ rss_feeds \in UNION {[1..n -> Feeds] : n \in 0..MaxFeeds}
    /\ f_pc = "for"
    /\ f_feed = 0
    /\ f_entry = 0
    /\ news_articles = <<>>
    /\ WrapIdle
    /\ PdfIdle

NextFetch == Parse \/ ParseRaises \/ ReadEntry \/ EntryRaises \/ EndOfFeed \/ Return

SpecFetch == InitFetch /\ [][NextFetch]_vars

\* a feed fails when parsing it raises or reading one of its entries raises
Failed(f) ==
    \/ rss_feeds[f].raises
    \/ \E e \in 1..Len(rss_feeds[f].entries) : rss_feeds[f].entries[e] = "untitled"

\* the articles of the feeds from f on that did not fail, in order
RECURSIVE ArticlesOfSound(_)
ArticlesOfSound(f) ==
    IF f > Len(rss_feeds) THEN <<>>
    ELSE (IF Failed(f) THEN <<>>
          ELSE [e \in 1..Len(rss_feeds[f].entries) |-> Article(f, e)])
         \o ArticlesOfSound(f + 1)

\* C6: a feed that fails, at parse time or while one of its entries is read,
\* contributes no article and stops no other feed: what fetch_news returns is
\* the articles of the feeds that did not fail, in order.
C6_FailedFeedYieldsNothing ==
    f_pc = "done" => news_articles = ArticlesOfSound(1)

----------------------------------------------------------------------------
(* The claims about the wrapper *)

\* the words of a list of lines, in order
RECURSIVE WordsOfLines(_, _)
WordsOfLines(ls, i) ==
    IF i > Len(ls) THEN <<>> ELSE Split(ls[i]) \o WordsOfLines(ls, i + 1)

LineWidth(ln) == StringWidth(ln, "Helvetica", 10)

\* C1: every line the wrapper produces measures at most max_width under the
\* font it measures with, except a line that is one single word wider than
\* max_width.
C1_LinesFit ==
    w_pc = "wrapped" =>
        \A i \in 1..Len(lines) :
            \/ LineWidth(lines[i]) <= Points(w_max)
            \/ /\ Len(Split(lines[i])) = 1
               /\ LineWidth(Split(lines[i])[1]) > Points(w_max)

\* a wrapped text with a line of several words, a line break, and a line that
\* is one word wider than the budget
C1_Witness ==
    /\ w_pc = "wrapped"
    /\ \E i \in 1..Len(lines) : Len(Split(lines[i])) >= 2
    /\ \E i \in 1..Len(lines) :
          Len(Split(lines[i])) = 1 /\ LineWidth(lines[i]) > Points(w_max)

\* C2: the words of the lines, in line order, are exactly the words of the
\* text: none dropped, duplicated, split or reordered.
C2_WordsKept ==
    w_pc = "wrapped" => WordsOfLines(lines, 1) = Split(w_text)

\* a wrapped text of at least three words on at least two lines
C2_Witness ==
    /\ w_pc = "wrapped"
    /\ Len(Split(w_text)) >= 3
    /\ Len(lines) >= 2
    /\ \E i \in 1..Len(lines) : Len(Split(lines[i])) >= 2

\* C10: every line the wrapper emits holds at least one word, so there are
\* never more lines than words.
C10_NoEmptyLine ==
    w_pc = "wrapped" =>
        /\ \A i \in 1..Len(lines) : Len(Split(lines[i])) >= 1
        /\ Len(lines) <= Len(words)

----------------------------------------------------------------------------
(* The claims about create_pdf *)

\* the canvas calls of article a made by the statement named block
CallsOf(a, block) == {i \in 1..Len(out) : out[i].art = a /\ out[i].block = block}
Drawn(text) == {i \in 1..Len(out) : out[i].op = "drawString" /\ out[i].text = text}
Links == {i \in 1..Len(out) : out[i].op = "linkURL"}
TheOne(S) == CHOOSE i \in S : TRUE

\* what create_pdf has emitted for the one article RecA, its summary line
\* reading summaryLine
C3_Shape(summaryLine) ==
    /\ Cardinality(Drawn(HeadingText)) = 1
    /\ Cardinality(Drawn(TitlePrefix \o <<"A">>)) = 1
    /\ Cardinality(Drawn(SourcePrefix \o <<"S">>)) = 1
    /\ Cardinality(Drawn(link_text)) = 1
    /\ Cardinality(Links) = 1
    /\ Cardinality(CallsOf(1, "summary")) = 1
    /\ out[TheOne(Links)].url = "http://x"
    /\ out[TheOne(CallsOf(1, "summary"))].text = summaryLine
    /\ TheOne(Drawn(HeadingText)) = 1
    /\ TheOne(Drawn(HeadingText)) < TheOne(Drawn(TitlePrefix \o <<"A">>))
    /\ TheOne(Drawn(TitlePrefix \o <<"A">>)) < TheOne(Drawn(SourcePrefix \o <<"S">>))
    /\ TheOne(Drawn(SourcePrefix \o <<"S">>)) < TheOne(Drawn(link_text))
    /\ TheOne(Drawn(link_text)) < TheOne(Links)
    /\ TheOne(Links) < TheOne(CallsOf(1, "summary"))

\* C3 as claimed: for the one record {title "A", link "http://x", summary "",
\* published "", source "S"} create_pdf emits one heading, one line "Title: A",
\* one line "Source: S", one "Read more" with one link to "http://x", and one
\* summary line reading "Summary: ", trailing space included.
C3_Original ==
    (news = <<RecA>> /\ pc = "done") => C3_Shape(SummaryPrefix)

\* C3 as amended: the same, the one summary line reading "Summary:" (the prefix
\* stripped of its trailing space).
C3_PrefixOnlyLine ==
    (news = <<RecA>> /\ pc = "done") =>
        C3_Shape(<<"S","u","m","m","a","r","y",":">>)

C3_Witness == news = <<RecA>> /\ pc = "done" /\ Len(out) = 7

\* C4, on the calls made so far: from one drawString to the next on the same
\* page y goes down, and the first drawString of every page is at y = 742.
C4_Drawn ==
    LET texts == {i \in 1..Len(out) : out[i].op = "drawString"}
    IN  /\ \A i, j \in texts :
              (i < j /\ out[i].page = out[j].page) => out[i].y > out[j].y
        /\ \A i \in texts :
              (\A j \in texts : j < i => out[j].page < out[i].page) => out[i].y = 742

\* C4, on one step: a step that draws text lowers y; y changes otherwise only
\* by the page break, which sets it to 742 and adds exactly one page.
C4_Step ==
    LET broke == Len(out') = Len(out) + 1 /\ out'[Len(out')].op = "showPage"
        drew == \E i \in (Len(out) + 1)..Len(out') : out'[i].op = "drawString"
    IN  /\ drew => (y' < y /\ page' = page)
        /\ broke => (y' = 742 /\ page' = page + 1)
        /\ (y' > y \/ page' # page) => broke
        /\ page' # page => y' = 742

\* C4: the cursor y strictly decreases from one draw to the next within a
\* page and is reset only by a page break, to 742, the page count going up by
\* one; the first thing drawn on every page is at y = 742.
C4_CursorDescends == [](C4_Drawn) /\ [][C4_Step]_vars

C4_Witness ==
    /\ pc = "done"
    /\ page = 2
    /\ \E i \in 1..Len(out) :
          out[i].op = "drawString" /\ out[i].page = 2 /\ out[i].y = 742
    /\ \E i \in 1..Len(out) :
          out[i].op = "drawString" /\ out[i].page = 1 /\ out[i].y < 742

\* one step of create_pdf against a page-break threshold: at a record
\* boundary the break is emitted exactly when y is below the threshold, and
\* nowhere else is a break emitted
C5_Step(threshold) ==
    LET broke == \E i \in (Len(out) + 1)..Len(out') : out'[i].op = "showPage"
    IN  /\ (pc = "for" /\ art < Len(news) /\ pc' # pc) => (broke <=> y < threshold)
        /\ broke => (pc = "for" /\ pc' = "title" /\ Len(out') = Len(out) + 1)

\* C5 as claimed: a page break is emitted before a record exactly when y at
\* that record boundary is below 50, and never inside a record.
C5_Original == [][C5_Step(50)]_vars

\* C5 as amended: a page break is emitted before a record exactly when y at
\* that record boundary is below 100 (left_margin + 50); the test is made once
\* per record, before its title, and no break is emitted inside a record.
C5_BreakBelow100 == [][C5_Step(100)]_vars

\* a break taken at a record boundary where y, the y of the last summary line
\* less its line height and the gap, is between 50 and 100
C5_Witness ==
    /\ pc = "title"
    /\ Len(out) >= 2
    /\ out[Len(out)].op = "showPage"
    /\ out[Len(out) - 1].block = "summary"
    /\ out[Len(out) - 1].y - 12 - 20 >= 50
    /\ out[Len(out) - 1].y - 12 - 20 < 100
    /\ y = 742

BlockRank(block) ==
    CASE block = "heading" -> 0 [] block = "break" -> 1 [] block = "title" -> 2
      [] block = "source" -> 3 [] block = "published" -> 4
      [] block = "readmore" -> 5 [] block = "link" -> 6 [] block = "summary" -> 7

\* the words drawn for article a by the statement named block, in order
RECURSIVE WordsDrawn(_, _, _)
WordsDrawn(a, block, i) ==
    IF i > Len(out) THEN <<>>
    ELSE (IF out[i].art = a /\ out[i].block = block THEN Split(out[i].text) ELSE <<>>)
         \o WordsDrawn(a, block, i + 1)

\* C7: the records are rendered in input order, none skipped, merged or
\* repeated; each record's blocks come in the order title, source, published,
\* "Read more" + link, summary; each record gets exactly one link, whose URL
\* is the record's link as given.
C7_InputOrder ==
    pc = "done" =>
        /\ \A i, j \in 1..Len(out) :
              i < j => \/ out[i].art < out[j].art
                       \/ /\ out[i].art = out[j].art
                          /\ BlockRank(out[i].block) <= BlockRank(out[j].block)
        /\ \A i \in 1..Len(out) : out[i].art \in 0..Len(news)
        /\ \A a \in 1..Len(news) :
              /\ WordsDrawn(a, "title", 1) = Split(TitlePrefix \o news[a].title)
              /\ WordsDrawn(a, "source", 1) = Split(SourcePrefix \o news[a].source)
              /\ WordsDrawn(a, "published", 1)
                    = Split(PublishedPrefix \o news[a].published)
              /\ WordsDrawn(a, "summary", 1) = Split(SummaryPrefix \o news[a].summary)
              /\ Cardinality(CallsOf(a, "readmore")) = 1
              /\ out[TheOne(CallsOf(a, "readmore"))].text = link_text
              /\ Cardinality(CallsOf(a, "link")) = 1
              /\ out[TheOne(CallsOf(a, "link"))].op = "linkURL"
              /\ out[TheOne(CallsOf(a, "link"))].url = news[a].link
        /\ Cardinality(Links) = Len(news)

C7_Witness ==
    /\ pc = "done"
    /\ Len(news) = 3
    /\ news[1] # news[2] /\ news[2] # news[3] /\ news[1] # news[3]
    /\ news[1].link = "example.com"
    /\ \E i \in Links : out[i].url = "example.com" /\ out[i].art = 1

\* C8: every line of several words is no wider than text_width when measured
\* in the font and size it is drawn with; in particular the title lines, which
\* are drawn in Helvetica-Bold 12.
C8_FitsInOwnFont ==
    \A i \in 1..Len(out) :
        (out[i].op = "drawString" /\ out[i].art >= 1 /\ Len(Split(out[i].text)) >= 2)
            => StringWidth(out[i].text, out[i].font[1], out[i].font[2])
                  <= Points(text_width)

\* the number of lines create_pdf has drawn for article a by the statement block
NLines(a, block) == Cardinality(CallsOf(a, block))

\* C9: a record that wraps to nT title, nS source, nP published and nM
\* summary lines lowers y by 14*nT + 12*nS + 12*nP + 15 + 12*nM + 20 from its
\* value after the page-break test (the y of the record's first title line);
\* the link rectangle is 50 wide and 12 high, starts at the left margin and
\* sits on the y at which "Read more" is drawn.
C9_RecordAdvance ==
    /\ (pc = "for" /\ art >= 1) =>
          LET first == CHOOSE i \in CallsOf(art, "title") :
                          \A j \in CallsOf(art, "title") : i <= j
          IN  y = out[first].y - ( 14 * NLines(art, "title")
                                   + 12 * NLines(art, "source")
                                   + 12 * NLines(art, "published")
                                   + 15
                                   + 12 * NLines(art, "summary")
                                   + 20 )
    /\ \A i \in Links :
          /\ out[i].rect[1] = 50
          /\ out[i].rect[3] - out[i].rect[1] = 50
          /\ out[i].rect[4] - out[i].rect[2] = 12
          /\ out[i - 1].text = link_text
          /\ out[i - 1].art = out[i].art
          /\ out[i].rect[2] = out[i - 1].y - 2
    /\ \A a \in 1..Len(news) :
          (a < art \/ pc \in {"for", "done", "gap"}) /\ a <= art =>
              /\ NLines(a, "title") = Len(WrapLines(TitlePrefix \o news[a].title, 542))
              /\ NLines(a, "summary")
                    = Len(WrapLines(SummaryPrefix \o news[a].summary, 542))

C9_Witness ==
    /\ pc = "for"
    /\ art >= 2
    /\ NLines(art, "title") = 2
    /\ NLines(art, "source") = 7
    /\ NLines(art, "published") = 7
    /\ NLines(art, "summary") = 7
    /\ NLines(art - 1, "summary") = 1

====
